---- MODULE Spec2Model ----
(***************************************************************************)
(* Model of the nlprule tokenizer (src/tokenizer.rs) and of its dictionary *)
(* tagger (src/tokenizer/tag.rs).                                          *)
(*                                                                         *)
(* A string is a sequence of Unicode scalar values.  A scalar value is     *)
(* named by a TLA+ string ("a", ".", "eacute", "emsp", ...); Width gives   *)
(* the length of its UTF-8 encoding.  A &str slice of the input is the     *)
(* record [ptr, len]: its byte offset from the start of the input and its  *)
(* byte length.                                                            *)
(***************************************************************************)
EXTENDS Integers, Sequences, FiniteSets, TLC

(***************************************************************************)
(* Characters                                                              *)
(***************************************************************************)
LowerSeq ==
    << "a", "b", "c", "d", "e", "f", "g", "h", "i", "j", "k", "l", "m",
       "n", "o", "p", "q", "r", "s", "t", "u", "v", "w", "x", "y", "z" >>

UpperSeq ==
    << "A", "B", "C", "D", "E", "F", "G", "H", "I", "J", "K", "L", "M",
       "N", "O", "P", "Q", "R", "S", "T", "U", "V", "W", "X", "Y", "Z" >>

Lower == { LowerSeq[i] : i \in 1..Len(LowerSeq) }

Upper == { UpperSeq[i] : i \in 1..Len(UpperSeq) }

Digit == { "0", "1", "2", "3", "4", "5", "6", "7", "8", "9" }

\* char::is_whitespace: space, tab, line feed, U+00A0 (nbsp), U+2003 (emsp)
Whitespace == { " ", "TAB", "LF", "nbsp", "emsp" }

\* the characters of the string literal of split_func; the names stand for
\* U+2019 U+0060 U+00B4 U+2018 U+005C U+201E U+201C U+201D U+0022 U+2026
DelimiterSet ==
    { "'", "rsquo", "grave", "acute", "lsquo", "]", ",", ".", ":", "!", "?", "/",
      "bslash", "(", ")", "<", "=", ">", "bdquo", "ldquo", "rdquo", "dquote", "+",
      "#", "hellip", "*" }

\* [-a-zA-Z0-9@:%._\+~#=]
HostClass ==
    Lower \cup Upper \cup Digit \cup
    { "-", "@", ":", "%", ".", "_", "+", "~", "#", "=" }

\* [-a-zA-Z0-9@:%_\+.~#?&//=]
PathClass ==
    Lower \cup Upper \cup Digit \cup
    { "-", "@", ":", "%", "_", "+", ".", "~", "#", "?", "&", "/", "=" }

\* \w of the regex crate (Unicode word characters)
WordClass == Lower \cup Upper \cup Digit \cup { "_", "eacute" }

\* len_utf8
Width(c) ==
    CASE c \in { "emsp", "rsquo", "lsquo", "bdquo", "ldquo", "rdquo", "hellip" } -> 3
      [] c \in { "eacute", "nbsp", "acute" } -> 2
      [] OTHER -> 1

is_whitespace(c) == c \in Whitespace

\* char::to_lowercase on the characters of the model
to_lowercase_char(c) ==
    IF c \in Upper
    THEN LowerSeq[CHOOSE i \in 1..Len(UpperSeq) : UpperSeq[i] = c]
    ELSE c

\* str::to_lowercase
to_lowercase(s) == [i \in 1..Len(s) |-> to_lowercase_char(s[i])]

(***************************************************************************)
(* Strings and slices                                                      *)
(***************************************************************************)
RECURSIVE ByteLen(_)
\* str::len: the number of bytes of s
ByteLen(s) == IF s = << >> THEN 0 ELSE Width(Head(s)) + ByteLen(Tail(s))

\* byte offset at which the character after the first n characters starts
ByteOff(s, n) == ByteLen(SubSeq(s, 1, n))

\* the number of characters of s that end at or before byte offset b
CharIdx(s, b) == Cardinality({ n \in 1..Len(s) : ByteOff(s, n) <= b })

\* the characters of the slice sl of text
Chars(text, sl) ==
    SubSeq(text, CharIdx(text, sl.ptr) + 1, CharIdx(text, sl.ptr + sl.len))

\* &text[from..to] for byte offsets from <= to
Slice(from, to) == [ptr |-> from, len |-> to - from]

RECURSIVE TrimStart(_)
TrimStart(s) ==
    IF s # << >> /\ is_whitespace(Head(s)) THEN TrimStart(Tail(s)) ELSE s

RECURSIVE TrimEnd(_)
TrimEnd(s) ==
    IF s # << >> /\ is_whitespace(s[Len(s)])
    THEN TrimEnd(SubSeq(s, 1, Len(s) - 1))
    ELSE s

\* str::trim
trim(s) == TrimEnd(TrimStart(s))

(***************************************************************************)
(* split (tokenizer.rs 30-48)                                              *)
(***************************************************************************)
\* the closure split_func of get_token_strs, the only argument split is
\* ever called with
split_func(c) == is_whitespace(c) \/ c \in DelimiterSet

\* text.match_indices(split_func): one (index, matched) per matching
\* character of the slice, index relative to the slice, in order
match_indices(s) ==
    SelectSeq([i \in 1..Len(s) |->
                  [index |-> ByteOff(s, i - 1), len |-> Width(s[i]), ch |-> s[i]]],
              LAMBDA m : split_func(m.ch))

\* split with `last = index`: the matched character is not skipped
SplitAdvanceStale(m) == m.index

\* `last = index + matched.len()` of the loop body
SplitAdvance(m) == m.index + m.len

\* split without the `last != index` test: empty gaps are pushed too
SplitGapAlways(base, last, index) == << Slice(base + last, base + index) >>

\* `if last != index { result.push(&text[last..index]) }` of the loop body
SplitGap(base, last, index) ==
    IF last # index THEN << Slice(base + last, base + index) >> ELSE << >>

RECURSIVE SplitLoop(_, _, _, _, _)
\* the for loop and the trailing push; ms are the matches not yet visited
SplitLoop(base, total, ms, last, result) ==
    IF ms = << >>
    THEN IF last < total
         THEN Append(result, Slice(base + last, base + total))
         ELSE result
    ELSE LET m == Head(ms)
         IN  SplitLoop(base, total, Tail(ms), SplitAdvance(m),
                       (result \o SplitGap(base, last, m.index))
                           \o << Slice(base + m.index, base + m.index + m.len) >>)

\* split(&text[sl], split_func): the pieces as slices of text
split(text, sl) ==
    SplitLoop(sl.ptr, sl.len, match_indices(Chars(text, sl)), 0, << >>)

(***************************************************************************)
(* URL_REGEX (tokenizer.rs 55), matched with the leftmost-first rule of    *)
(* the regex crate.  Positions are counts of characters already consumed.  *)
(*   (http(s)?://.)?  (www\.)?  Host{2,256}  \.  [a-z]{2,6}  \b  Path*       *)
(***************************************************************************)
HostMin == 2

HostMax == 256

TldMin == 2

TldMax == 6

\* the literal lit occurs in t right after position p
Starts(t, p, lit) ==
    /\ p + Len(lit) <= Len(t)
    /\ \A j \in 1..Len(lit) : t[p + j] = lit[j]

\* the length of the longest run of characters of class cls after position p
Run(t, p, cls) ==
    LET stops == { n \in 0..(Len(t) - p) : n = Len(t) - p \/ t[p + n + 1] \notin cls }
    IN  CHOOSE n \in stops : \A m \in stops : n <= m

Max(S) == CHOOSE x \in S : \A y \in S : y <= x

Min2(a, b) == IF a <= b THEN a ELSE b

\* \b at position q: exactly one neighbour is a word character
WordBoundary(t, q) ==
    (q >= 1 /\ t[q] \in WordClass) # (q < Len(t) /\ t[q + 1] \in WordClass)

\* Host{2,256} \. [a-z]{2,6} \b Path* from position p: the end
\* of the preferred match (greedy host, then greedy label), or -1
HostEnd(t, p) ==
    LET hostRun == Min2(HostMax, Run(t, p, HostClass))
        labelOk(n, k) ==
            /\ p + n + 1 + k <= Len(t)
            /\ \A j \in 1..k : t[p + n + 1 + j] \in Lower
            /\ WordBoundary(t, p + n + 1 + k)
        labels(n) == { k \in TldMin..TldMax : labelOk(n, k) }
        hosts == { n \in HostMin..hostRun :
                       /\ p + n + 1 <= Len(t)
                       /\ t[p + n + 1] = "."
                       /\ labels(n) # {} }
    IN  IF hosts = {}
        THEN -1
        ELSE LET n == Max(hosts)
                 q == p + n + 1 + Max(labels(n))
             IN  q + Run(t, q, PathClass)

\* (www\.)? and the rest: the group is tried first, then skipped
WwwEnd(t, p) ==
    IF Starts(t, p, << "w", "w", "w", "." >>) /\ HostEnd(t, p + 4) # -1
    THEN HostEnd(t, p + 4)
    ELSE HostEnd(t, p)

\* http(s)?://. : the position after the group, or -1; `.` is any character
\* but a line feed
SchemeEnd(t, s) ==
    LET any(p) == p < Len(t) /\ t[p + 1] # "LF"
    IN  IF Starts(t, s, << "h", "t", "t", "p", "s", ":", "/", "/" >>) /\ any(s + 8)
        THEN s + 9
        ELSE IF Starts(t, s, << "h", "t", "t", "p", ":", "/", "/" >>) /\ any(s + 7)
             THEN s + 8
             ELSE -1

\* the end of the match of URL_REGEX that starts at position s, or -1
MatchAt(t, s) ==
    IF SchemeEnd(t, s) # -1 /\ WwwEnd(t, SchemeEnd(t, s)) # -1
    THEN WwwEnd(t, SchemeEnd(t, s))
    ELSE WwwEnd(t, s)

RECURSIVE FindFrom(_, _)
\* the matches at or after position s, leftmost first, non-overlapping
FindFrom(t, s) ==
    LET starts == { p \in s..(Len(t) - 1) : MatchAt(t, p) # -1 }
    IN  IF starts = {}
        THEN << >>
        ELSE LET p == CHOOSE x \in starts : \A y \in starts : x <= y
                 e == MatchAt(t, p)
             IN  << [start |-> ByteOff(t, p), end |-> ByteOff(t, e)] >>
                     \o FindFrom(t, e)

\* URL_REGEX.find_iter(text): the matches as byte ranges
find_iter(text) == FindFrom(text, 0)

(***************************************************************************)
(* get_token_strs (tokenizer.rs 50-70)                                     *)
(***************************************************************************)
\* get_token_strs with `prev = m.start()`: the match is split again
NextPrevStale(m) == m.start

\* `prev = m.end()` of the loop body
NextPrev(m) == m.end

\* get_token_strs that splits the match like the text around it
UrlPieceSplit(text, m) == split(text, Slice(m.start, m.end))

\* `tokens.push(&text[m.start()..m.end()])` of the loop body
UrlPiece(text, m) == << Slice(m.start, m.end) >>

RECURSIVE TokenStrsLoop(_, _, _, _)
\* the for loop over the matches and the final extend
TokenStrsLoop(text, ms, prev, tokens) ==
    IF ms = << >>
    THEN tokens \o split(text, Slice(prev, ByteLen(text)))
    ELSE LET m == Head(ms)
         IN  TokenStrsLoop(text, Tail(ms), NextPrev(m),
                           (tokens \o split(text, Slice(prev, m.start)))
                               \o UrlPiece(text, m))

get_token_strs(text) == TokenStrsLoop(text, find_iter(text), 0, << >>)

(***************************************************************************)
(* Tagger (tokenizer/tag.rs)                                               *)
(***************************************************************************)
RECURSIVE split_tab(_, _)
\* line.split('\t').collect(), cur being the field under construction
split_tab(line, cur) ==
    IF line = << >>
    THEN << cur >>
    ELSE IF Head(line) = "TAB"
         THEN << cur >> \o split_tab(Tail(line), << >>)
         ELSE split_tab(Tail(line), Append(cur, Head(line)))

\* tags.insert(word, vec![(inflection, tag)]): the last line of a word wins
push_entry_overwrite(tags, word, pair) ==
    [w \in DOMAIN tags \cup { word } |-> IF w = word THEN << pair >> ELSE tags[w]]

\* tags.entry(word).or_insert_with(Vec::new).push((inflection, tag))
push_entry(tags, word, pair) ==
    IF word \in DOMAIN tags
    THEN [tags EXCEPT ![word] = Append(@, pair)]
    ELSE [w \in DOMAIN tags \cup { word } |->
             IF w = word THEN << pair >> ELSE tags[w]]

\* the loop body skipping a failed or short line instead of failing
read_line_skip(tags, line) ==
    IF ~line.ok \/ (line.s # << >> /\ Head(line.s) = "#")
    THEN [kind |-> "Ok", tags |-> tags]
    ELSE LET parts == split_tab(line.s, << >>)
         IN  IF Len(parts) < 3
             THEN [kind |-> "Ok", tags |-> tags]
             ELSE [kind |-> "Ok",
                   tags |-> push_entry(tags, to_lowercase(parts[1]),
                                       << parts[2], parts[3] >>)]

\* One step of reader.lines(): a line is [ok, s], ok being FALSE when
\* reading it fails and s its characters otherwise.
\* the body of the loop over the lines: Ok with the map after the line, Err
\* (line? fails) or Panic (parts[1] or parts[2] out of bounds)
read_line(tags, line) ==
    IF ~line.ok
    THEN [kind |-> "Err"]
    ELSE IF line.s # << >> /\ Head(line.s) = "#"
         THEN [kind |-> "Ok", tags |-> tags]
         ELSE LET parts == split_tab(line.s, << >>)
              IN  IF Len(parts) < 3
                  THEN [kind |-> "Panic"]
                  ELSE [kind |-> "Ok",
                        tags |-> push_entry(tags, to_lowercase(parts[1]),
                                            << parts[2], parts[3] >>)]

RECURSIVE read_lines(_, _)
\* for line in reader.lines()
read_lines(tags, lines) ==
    IF lines = << >>
    THEN [kind |-> "Ok", tags |-> tags]
    ELSE LET r == read_line(tags, Head(lines))
         IN  IF r.kind # "Ok" THEN r ELSE read_lines(r.tags, Tail(lines))

\* entry?, File::open(entry.path())? and the loop over the lines
read_file(tags, file) ==
    IF ~file.readable THEN [kind |-> "Err"] ELSE read_lines(tags, file.lines)

RECURSIVE read_files(_, _)
\* for entry in read_dir(path)?
read_files(tags, files) ==
    IF files = << >>
    THEN [kind |-> "Ok", tags |-> tags]
    ELSE LET r == read_file(tags, Head(files))
         IN  IF r.kind # "Ok" THEN r ELSE read_files(r.tags, Tail(files))

\* Tagger::from_dumps: Ok(Tagger { tags }), Err(io error) or a panic
from_dumps(d) ==
    IF ~d.readable THEN [kind |-> "Err"] ELSE read_files(<< >>, d.files)

\* Tagger::get_tags
get_tags(tagger, word) ==
    IF word \in DOMAIN tagger.tags THEN tagger.tags[word] ELSE << >>

(***************************************************************************)
(* Token and tokenize (tokenizer.rs 72-162)                                *)
(***************************************************************************)
SENT_START == << "S", "E", "N", "T", "_", "S", "T", "A", "R", "T" >>

UNKNOWN == << "U", "N", "K", "N", "O", "W", "N" >>

\* Token::sent_start
sent_start ==
    [text |-> << >>, inflections |-> << >>, tags |-> << >>,
     lower_inflections |-> << >>, lower |-> << >>,
     postags |-> << SENT_START >>,
     char_span |-> << 0, 0 >>, byte_span |-> << 0, 0 >>,
     has_space_before |-> FALSE]

\* x.chars().count()
chars_count(text, x) == Len(Chars(text, x))

\* x.as_ptr() as usize - text.as_ptr() as usize
byte_start_of(text, x) == x.ptr

\* has_space_before looking for an ASCII space only
has_space_before_ascii(text, byte_start) ==
    LET before == Chars(text, Slice(0, byte_start))
    IN  before # << >> /\ before[Len(before)] = " "

\* text[..byte_start].ends_with(char::is_whitespace)
has_space_before(text, byte_start) ==
    LET before == Chars(text, Slice(0, byte_start))
    IN  before # << >> /\ is_whitespace(before[Len(before)])

\* (char_start, current_char) with current_char already advanced
char_span_of(char_start, current_char) == << char_start, current_char >>

\* (byte_start, byte_start + x.len())
byte_span_of(byte_start, x) == << byte_start, byte_start + x.len >>

\* the closure of map: the Token of piece x, current_char being the counter
\* before the piece
make_token(text, tagger, x, current_char) ==
    LET char_start == current_char
        advanced == current_char + chars_count(text, x)
        byte_start == byte_start_of(text, x)
        trimmed == trim(Chars(text, x))
        lower == to_lowercase(trimmed)
    IN  [text |-> trimmed,
         tags |-> get_tags(tagger, lower),
         lower |-> lower,
         inflections |-> << >>,
         lower_inflections |-> << >>,
         postags |-> << >>,
         char_span |-> char_span_of(char_start, advanced),
         byte_span |-> byte_span_of(byte_start, x),
         has_space_before |-> has_space_before(text, byte_start)]

\* the counter advanced by the pieces that become Tokens only
advance_char_kept(text, x, current_char) ==
    IF trim(Chars(text, x)) = << >>
    THEN current_char
    ELSE current_char + chars_count(text, x)

\* `current_char += x.chars().count()`
advance_char(text, x, current_char) == current_char + chars_count(text, x)

\* .filter(|token| !token.text.is_empty())
keep_token(token) == token.text # << >>

\* the postags without the fallback
postags_no_fallback(x) == [i \in 1..Len(x.tags) |-> x.tags[i][2]]

\* the postags of the postprocessing closure
postags_of(x) ==
    LET postags == [i \in 1..Len(x.tags) |-> x.tags[i][2]]
    IN  IF postags = << >> THEN << UNKNOWN >> ELSE postags

\* the closure of the postprocessing pass
postprocess(x) ==
    LET inflections == Append([i \in 1..Len(x.tags) |-> x.tags[i][1]], x.text)
    IN  [x EXCEPT !.inflections = inflections,
                  !.lower_inflections =
                      [i \in 1..Len(inflections) |-> to_lowercase(inflections[i])],
                  !.postags = postags_of(x)]

(***************************************************************************)
(* Disambiguator (mod disambiguate): the contract of the specification,    *)
(* section 4.4.  The sequence keeps its length and order, and each Token's *)
(* tag candidates are resolved to a selection of them.                     *)
(***************************************************************************)
\* the elements of s at the indices of I, in order
Pick(s, I) ==
    LET F[i \in 0..Len(s)] ==
            IF i = 0 THEN << >>
            ELSE IF i \in I THEN Append(F[i - 1], s[i]) ELSE F[i - 1]
    IN  F[Len(s)]

Selections(s) == { Pick(s, I) : I \in SUBSET (1..Len(s)) }

RECURSIVE disambiguate_apply(_)
\* the sequences DISAMBIGUATOR.apply(tokens) may return
disambiguate_apply(ts) ==
    IF ts = << >>
    THEN { << >> }
    ELSE { << [Head(ts) EXCEPT !.tags = r] >> \o rest :
               r \in Selections(Head(ts).tags),
               rest \in disambiguate_apply(Tail(ts)) }

(***************************************************************************)
(* Inputs                                                                  *)
(***************************************************************************)
MaxChunks == 3

MaxFiles == 2

MaxLines == 3

RECURSIVE SeqsUpTo(_, _)
\* the sequences over S of length at most n
SeqsUpTo(S, n) ==
    IF n = 0
    THEN { << >> }
    ELSE LET shorter == SeqsUpTo(S, n - 1)
         IN  shorter \cup { Append(q, x) : q \in shorter, x \in S }

RECURSIVE Flatten(_)
Flatten(ss) == IF ss = << >> THEN << >> ELSE Head(ss) \o Flatten(Tail(ss))

\* the pieces the input texts are assembled from
Chunks ==
    { << "r", "u", "n" >>, << "R", "u", "n" >>, << " " >>, << "." >>, << "/" >>,
      << "eacute" >>, << "emsp" >>, << "hellip" >>,
      << "a", "b", ".", "c", "d" >>,
      << "h", "t", "t", "p", ":", "/", "/" >> }

\* "visit https://example.com/a?b=1 now"
ExampleUrlText ==
    << "v", "i", "s", "i", "t", " ", "h", "t", "t", "p", "s", ":", "/", "/",
       "e", "x", "a", "m", "p", "l", "e", ".", "c", "o", "m", "/", "a", "?",
       "b", "=", "1", " ", "n", "o", "w" >>

\* "Hello, world!"
HelloText ==
    << "H", "e", "l", "l", "o", ",", " ", "w", "o", "r", "l", "d", "!" >>

\* "xyzzyqqq"
UnknownWordText == << "x", "y", "z", "z", "y", "q", "q", "q" >>

Texts ==
    { Flatten(cs) : cs \in SeqsUpTo(Chunks, MaxChunks) }
        \cup { ExampleUrlText, HelloText, UnknownWordText }

\* "run\trun\tVB"
RunLine ==
    [ok |-> TRUE, s |-> << "r", "u", "n", "TAB", "r", "u", "n", "TAB", "V", "B" >>]

\* "Run\truns\tNN"
UpperRunLine ==
    [ok |-> TRUE,
     s |-> << "R", "u", "n", "TAB", "r", "u", "n", "s", "TAB", "N", "N" >>]

\* "#run\tran"
CommentLine ==
    [ok |-> TRUE, s |-> << "#", "r", "u", "n", "TAB", "r", "a", "n" >>]

\* "run\tVB"
ShortLine == [ok |-> TRUE, s |-> << "r", "u", "n", "TAB", "V", "B" >>]

\* ""
EmptyLine == [ok |-> TRUE, s |-> << >>]

\* "go\twent\tVBD\tx"
ExtraLine ==
    [ok |-> TRUE,
     s |-> << "g", "o", "TAB", "w", "e", "n", "t", "TAB", "V", "B", "D", "TAB", "x" >>]

\* a line whose read fails
FailedLine == [ok |-> FALSE, s |-> << >>]

SampleLines ==
    { RunLine, UpperRunLine, CommentLine, ShortLine, EmptyLine, ExtraLine,
      FailedLine }

RECURSIVE Cut(_, _)
\* the ways to cut the sequence of lines ls into n consecutive files
Cut(ls, n) ==
    IF n = 0
    THEN IF ls = << >> THEN { << >> } ELSE { }
    ELSE UNION { { << [readable |-> TRUE, lines |-> SubSeq(ls, 1, k)] >> \o rest :
                     rest \in Cut(SubSeq(ls, k + 1, Len(ls)), n - 1) } :
                 k \in 0..Len(ls) }

\* a file that cannot be opened
Unreadable(f) == [readable |-> FALSE, lines |-> f.lines]

\* fs with the files at the indices of bad unreadable
Mark(fs, bad) ==
    [readable |-> TRUE,
     files |-> [i \in 1..Len(fs) |->
                   IF i \in bad THEN Unreadable(fs[i]) ELSE fs[i]]]

\* a directory read_dir cannot read
UnreadableDir == [readable |-> FALSE, files |-> << >>]

\* the dictionary in use while tokenizing
SampleDir ==
    [readable |-> TRUE,
     files |-> << [readable |-> TRUE,
                   lines |-> << RunLine, CommentLine, UpperRunLine, ExtraLine >>] >>]

Words ==
    { << "r", "u", "n" >>, << "R", "u", "n" >>, << "g", "o" >>,
      << "#", "r", "u", "n" >>, << >> }

(***************************************************************************)
(* State                                                                   *)
(***************************************************************************)
VARIABLES
    text,          \* the argument of tokenize
    TAGGER,        \* the lazy static: Uninit, Ok with its map, or Poisoned
    pc,            \* the position of tokenize
    strs,          \* the vector get_token_strs returned
    next,          \* the index of the next piece the iterator yields
    current_char,  \* the counter of tokenize
    tokens,        \* the vector of Tokens
    dir,           \* the directory of dump files
    looked         \* the last get_tags call on its own: << [word, result] >>

vars == << text, TAGGER, pc, strs, next, current_char, tokens, dir, looked >>

tokenizeVars == << text, pc, strs, next, current_char, tokens >>

(***************************************************************************)
(* tokenize, one action per stage of the pipeline                          *)
(***************************************************************************)
Init ==
    /\ text \in Texts
    /\ dir = SampleDir
    /\ TAGGER = from_dumps(SampleDir)
    /\ pc = "segment"
    /\ strs = << >>
    /\ next = 1
    /\ current_char = 0
    /\ tokens = << sent_start >>
    /\ looked = << >>

\* get_token_strs(text)
Segment ==
    /\ pc = "segment"
    /\ strs' = get_token_strs(text)
    /\ pc' = IF strs' = << >> THEN "disambiguate" ELSE "build"
    /\ UNCHANGED << text, TAGGER, next, current_char, tokens, dir, looked >>

\* one piece through map and filter, extended onto tokens
Build ==
    /\ pc = "build"
    /\ LET x == strs[next]
           token == make_token(text, TAGGER, x, current_char)
       IN  /\ current_char' = advance_char(text, x, current_char)
           /\ tokens' = IF keep_token(token) THEN Append(tokens, token) ELSE tokens
    /\ next' = next + 1
    /\ pc' = IF next = Len(strs) THEN "disambiguate" ELSE "build"
    /\ UNCHANGED << text, TAGGER, strs, dir, looked >>

\* DISAMBIGUATOR.apply(tokens)
Disambiguate ==
    /\ pc = "disambiguate"
    /\ tokens' \in disambiguate_apply(tokens)
    /\ pc' = "postprocess"
    /\ UNCHANGED << text, TAGGER, strs, next, current_char, dir, looked >>

\* tokens.iter_mut().for_each(...) and the return
Postprocess ==
    /\ pc = "postprocess"
    /\ tokens' = [i \in 1..Len(tokens) |-> postprocess(tokens[i])]
    /\ pc' = "done"
    /\ UNCHANGED << text, TAGGER, strs, next, current_char, dir, looked >>

Next == Segment \/ Build \/ Disambiguate \/ Postprocess

Spec == Init /\ [][Next]_vars

(***************************************************************************)
(* The Tagger on its own: the lazy static and get_tags                     *)
(***************************************************************************)
\* the directory: at most MaxFiles files in the order read_dir yields them,
\* at most MaxLines lines in all, any empty file possibly unreadable
InitTagger ==
    /\ \/ dir = UnreadableDir
       \/ \E ls \in SeqsUpTo(SampleLines, MaxLines), n \in 0..MaxFiles :
              \E fs \in Cut(ls, n) :
                  \E bad \in SUBSET { i \in 1..Len(fs) : fs[i].lines = << >> } :
                      dir = Mark(fs, bad)
    /\ TAGGER = [kind |-> "Uninit"]
    /\ looked = << >>
    /\ text = << >>
    /\ pc = "idle"
    /\ strs = << >>
    /\ next = 1
    /\ current_char = 0
    /\ tokens = << >>

\* the value of the lazy static after its initializer ran: unwrap panics
\* on Err, and a panic of the initializer leaves it poisoned
lazy_tagger(r) == IF r.kind = "Ok" THEN r ELSE [kind |-> "Poisoned"]

\* first access of TAGGER: Tagger::from_dumps(...).unwrap()
Load ==
    /\ TAGGER.kind = "Uninit"
    /\ TAGGER' = lazy_tagger(from_dumps(dir))
    /\ UNCHANGED << tokenizeVars, dir, looked >>

\* TAGGER.get_tags(word)
Lookup ==
    /\ TAGGER.kind = "Ok"
    /\ \E word \in Words :
           looked' = << [word |-> word, result |-> get_tags(TAGGER, word)] >>
    /\ UNCHANGED << tokenizeVars, dir, TAGGER >>

NextTagger == Load \/ Lookup

SpecTagger == InitTagger /\ [][NextTagger]_vars

(***************************************************************************)
(* Properties                                                              *)
(***************************************************************************)
\* get_token_strs has just returned: strs is its result, unchanged afterwards
Segmented == pc \in { "build", "disambiguate" } /\ next = 1

\* map and filter have consumed every piece: tokens is the sequence built
Built == pc = "disambiguate"

\* the characters of piece i of strs
Piece(i) == Chars(text, strs[i])

\* the input character that ends at byte offset b is Unicode whitespace
SpaceEndsAt(b) ==
    \E n \in 1..Len(text) : ByteOff(text, n) = b /\ text[n] \in Whitespace

\* C1: the first Token tokenize returns is the sentinel: postags exactly
\* ["SENT_START"], char_span and byte_span both (0, 0).
C1_FirstIsSentStart ==
    pc = "done" =>
        /\ tokens[1].postags = << SENT_START >>
        /\ tokens[1].char_span = << 0, 0 >>
        /\ tokens[1].byte_span = << 0, 0 >>

\* C2: the pieces get_token_strs returns are contiguous, non-overlapping
\* substrings of the input: the first starts at byte 0, each next one starts
\* where the previous one ends, the last ends at the input length, and their
\* concatenation is the input.
C2_PiecesReconstructInput ==
    Segmented =>
        /\ strs = << >> => text = << >>
        /\ strs # << >> =>
               /\ strs[1].ptr = 0
               /\ strs[Len(strs)].ptr + strs[Len(strs)].len = ByteLen(text)
        /\ \A i \in 1..(Len(strs) - 1) : strs[i + 1].ptr = strs[i].ptr + strs[i].len
        /\ Flatten([i \in 1..Len(strs) |-> Piece(i)]) = text

C2_Witness ==
    /\ Segmented
    /\ Len(find_iter(text)) >= 1
    /\ Len(strs) >= 3
    /\ \E i \in 1..Len(strs) : Len(Piece(i)) = 1 /\ Width(Piece(i)[1]) > 1

\* C3 as stated: for every pair of consecutive Tokens (the sentinel is one)
\* the later span start is strictly greater than the earlier span start and
\* not less than the earlier span end, for char_span and byte_span, and no
\* span end exceeds the input length.
C3_StrictlyIncreasingStarts ==
    Built =>
        /\ \A i \in 1..(Len(tokens) - 1) :
               /\ tokens[i + 1].char_span[1] > tokens[i].char_span[1]
               /\ tokens[i + 1].byte_span[1] > tokens[i].byte_span[1]
               /\ tokens[i + 1].char_span[1] >= tokens[i].char_span[2]
               /\ tokens[i + 1].byte_span[1] >= tokens[i].byte_span[2]
        /\ \A i \in 1..Len(tokens) :
               /\ tokens[i].char_span[2] <= Len(text)
               /\ tokens[i].byte_span[2] <= ByteLen(text)

\* C3 amended: for every pair of consecutive Tokens the later span start is
\* not less than the earlier span end, and strictly greater than the earlier
\* span start unless the earlier Token is the sentinel (the Token after the
\* sentinel may start at offset 0 like the sentinel); no span end exceeds
\* the input length.
C3_OrderedSpans ==
    Built =>
        /\ \A i \in 1..(Len(tokens) - 1) :
               /\ tokens[i + 1].char_span[1] >= tokens[i].char_span[1]
               /\ tokens[i + 1].byte_span[1] >= tokens[i].byte_span[1]
               /\ i > 1 => /\ tokens[i + 1].char_span[1] > tokens[i].char_span[1]
                           /\ tokens[i + 1].byte_span[1] > tokens[i].byte_span[1]
               /\ tokens[i + 1].char_span[1] >= tokens[i].char_span[2]
               /\ tokens[i + 1].byte_span[1] >= tokens[i].byte_span[2]
        /\ \A i \in 1..Len(tokens) :
               /\ tokens[i].char_span[2] <= Len(text)
               /\ tokens[i].byte_span[2] <= ByteLen(text)

C3_Witness ==
    /\ Built
    /\ Len(tokens) >= 4
    /\ tokens[2].byte_span[1] = 0
    /\ \E i \in 3..Len(tokens) : tokens[i].byte_span[1] > tokens[i].char_span[1]

\* C4: every Token tokenize returns has as postags the tag-labels of its
\* resolved tags in order, or exactly ["UNKNOWN"] when it has none; a word
\* absent from the dictionary yields a Token with empty tags and postags
\* ["UNKNOWN"], as "xyzzyqqq" does.
C4_PostagsFromTags ==
    pc = "done" =>
        /\ \A i \in 1..Len(tokens) :
               /\ tokens[i].tags = << >> => tokens[i].postags = << UNKNOWN >>
               /\ tokens[i].tags # << >> =>
                      /\ Len(tokens[i].postags) = Len(tokens[i].tags)
                      /\ \A k \in 1..Len(tokens[i].tags) :
                             tokens[i].postags[k] = tokens[i].tags[k][2]
               /\ tokens[i].lower \notin DOMAIN TAGGER.tags =>
                      /\ tokens[i].tags = << >>
                      /\ tokens[i].postags = << UNKNOWN >>
        /\ text = UnknownWordText =>
               /\ Len(tokens) = 2
               /\ tokens[2].text = UnknownWordText
               /\ tokens[2].tags = << >>
               /\ tokens[2].postags = << UNKNOWN >>

C4_Witness ==
    /\ pc = "done"
    /\ \E i, j \in 2..Len(tokens) :
           /\ Len(tokens[i].tags) = 2
           /\ tokens[j].lower \notin DOMAIN TAGGER.tags
           /\ tokens[j].postags = << UNKNOWN >>

\* C5: for every Token built from a piece, char_span counts scalar values:
\* its start is the number of scalar values of the input before byte_span
\* start and its end the number before byte_span end; so the byte length is
\* at least the char length, and equal when the input is pure ASCII.
C5_CharSpanCountsScalars ==
    Built =>
        \A i \in 2..Len(tokens) :
            /\ tokens[i].char_span[1] = CharIdx(text, tokens[i].byte_span[1])
            /\ tokens[i].char_span[2] = CharIdx(text, tokens[i].byte_span[2])
            /\ tokens[i].byte_span[2] - tokens[i].byte_span[1]
                   >= tokens[i].char_span[2] - tokens[i].char_span[1]
            /\ (\A n \in 1..Len(text) : Width(text[n]) = 1) =>
                   tokens[i].byte_span[2] - tokens[i].byte_span[1]
                       = tokens[i].char_span[2] - tokens[i].char_span[1]

C5_Witness ==
    /\ Built
    /\ \E i \in 2..Len(tokens) :
           /\ tokens[i].char_span[1] >= 2
           /\ tokens[i].byte_span[1] > tokens[i].char_span[1]
           /\ tokens[i].has_space_before
           /\ tokens[i].byte_span[2] - tokens[i].byte_span[1]
                  > tokens[i].char_span[2] - tokens[i].char_span[1]

\* C6: for every Token built from a piece, has_space_before is true exactly
\* when the Token does not start at offset 0 and the input character right
\* before its byte_span start is Unicode whitespace.
C6_HasSpaceBefore ==
    Built =>
        \A i \in 2..Len(tokens) :
            tokens[i].has_space_before <=>
                (tokens[i].byte_span[1] > 0 /\ SpaceEndsAt(tokens[i].byte_span[1]))

C6_Witness ==
    /\ Built
    /\ \E i, j \in 2..Len(tokens) :
           /\ tokens[i].has_space_before
           /\ text[CharIdx(text, tokens[i].byte_span[1])] = "emsp"
           /\ ~tokens[j].has_space_before
           /\ tokens[j].byte_span[1] > 0

\* the positions of the tabs of line s, with 0 in front and Len(s) + 1 behind
Tabs(s) == { 0, Len(s) + 1 } \cup { n \in 1..Len(s) : s[n] = "TAB" }

\* the k-th tab-separated field of line s, k at most the number of fields
Field(s, k) ==
    LET from == CHOOSE a \in Tabs(s) : Cardinality({ b \in Tabs(s) : b < a }) = k - 1
        to == CHOOSE a \in Tabs(s) : Cardinality({ b \in Tabs(s) : b < a }) = k
    IN  SubSeq(s, from + 1, to - 1)

IsComment(line) == line.s # << >> /\ line.s[1] = "#"

\* the (inflection, tag) pairs of the lines of ls registered for word
RECURSIVE EntriesOfLines(_, _)
EntriesOfLines(ls, word) ==
    IF ls = << >>
    THEN << >>
    ELSE LET l == Head(ls)
         IN  (IF ~IsComment(l) /\ to_lowercase(Field(l.s, 1)) = word
              THEN << << Field(l.s, 2), Field(l.s, 3) >> >>
              ELSE << >>) \o EntriesOfLines(Tail(ls), word)

\* all the lines of the directory, file after file
AllLines == Flatten([i \in 1..Len(dir.files) |-> dir.files[i].lines])

\* every file can be read and every non-comment line has three fields
WellFormedDir ==
    /\ dir.readable
    /\ \A i \in 1..Len(dir.files) : dir.files[i].readable
    /\ \A i \in 1..Len(AllLines) :
           /\ AllLines[i].ok
           /\ ~IsComment(AllLines[i]) => Cardinality(Tabs(AllLines[i].s)) >= 4

\* C7: after a successful load get_tags(word) is exactly the (inflection,
\* tag) pairs of the non-comment lines whose lowercased word-form is word,
\* in line order, duplicates kept, and empty for a word without such a line;
\* the line "run\trun\tVB" alone gives [("run", "VB")] for "run".
C7_LookupReturnsEntries ==
    (TAGGER.kind = "Ok" /\ looked # << >>) =>
        /\ looked[1].result = EntriesOfLines(AllLines, looked[1].word)
        /\ (AllLines = << RunLine >> /\ looked[1].word = << "r", "u", "n" >>) =>
               looked[1].result = << << << "r", "u", "n" >>, << "V", "B" >> >> >>

C7_Witness ==
    /\ TAGGER.kind = "Ok"
    /\ looked # << >>
    /\ Len(dir.files) = 2
    /\ \E i \in 1..Len(AllLines) : IsComment(AllLines[i])
    /\ Len(looked[1].result) = 2
    /\ looked[1].result[1] # looked[1].result[2]

\* C8: the load yields no Tagger when a file cannot be read or a non-comment
\* line has fewer than 3 fields: the lazy static ends poisoned and no lookup
\* is ever answered from the entries read before the failure.
C8_NoPartialDictionary ==
    /\ TAGGER.kind = "Ok" => WellFormedDir
    /\ (TAGGER.kind # "Uninit" /\ ~WellFormedDir) =>
           (TAGGER.kind = "Poisoned" /\ looked = << >>)

C8_Witness ==
    /\ TAGGER.kind = "Poisoned"
    /\ Len(AllLines) >= 2
    /\ AllLines[1] = RunLine
    /\ AllLines[2] \in { ShortLine, EmptyLine }

\* piece i of strs lies within the byte range [from, to)
Within(i, from, to) == from <= strs[i].ptr /\ strs[i].ptr + strs[i].len <= to

\* the pieces of strs that lie within [from, to), in order
PiecesWithin(from, to) ==
    LET idx == { i \in 1..Len(strs) : strs[i].len > 0 /\ Within(i, from, to) }
    IN  Pick(strs, idx)

\* the stretches of the input outside the matches ms, starting at prev
RECURSIVE Gaps(_, _)
Gaps(ms, prev) ==
    IF ms = << >>
    THEN << Slice(prev, ByteLen(text)) >>
    ELSE << Slice(prev, Head(ms).start) >> \o Gaps(Tail(ms), Head(ms).end)

\* C9: every URL match is exactly one piece, equal to the whole match, and no
\* piece starts or ends inside it; each stretch between matches is segmented
\* as if split on its own.  "https://example.com/a?b=1" is one piece of
\* "visit https://example.com/a?b=1 now".
C9_UrlAtomic ==
    Segmented =>
        LET ms == find_iter(text)
            gaps == Gaps(ms, 0)
        IN  /\ \A k \in 1..Len(ms) :
                   /\ Cardinality({ i \in 1..Len(strs) :
                                      strs[i] = Slice(ms[k].start, ms[k].end) }) = 1
                   /\ \A i \in 1..Len(strs) :
                          /\ ~(ms[k].start < strs[i].ptr /\ strs[i].ptr < ms[k].end)
                          /\ ~(ms[k].start < strs[i].ptr + strs[i].len
                                  /\ strs[i].ptr + strs[i].len < ms[k].end)
            /\ \A g \in 1..Len(gaps) :
                   PiecesWithin(gaps[g].ptr, gaps[g].ptr + gaps[g].len)
                       = split(text, gaps[g])
            /\ text = ExampleUrlText =>
                   \E i \in 1..Len(strs) : Piece(i) = SubSeq(ExampleUrlText, 7, 31)

C9_Witness ==
    /\ Segmented
    /\ Len(find_iter(text)) = 1
    /\ \E i \in 1..Len(strs) :
           /\ strs[i] = Slice(find_iter(text)[1].start, find_iter(text)[1].end)
           /\ "/" \in { Piece(i)[n] : n \in 1..Len(Piece(i)) }
           /\ i > 1
           /\ i < Len(strs)

\* C10: without a URL match every whitespace or delimiter character is a
\* piece of its own, every other piece is a maximal run of non-delimiter
\* characters, no piece is empty, delimiter-only text gives one piece per
\* character and empty input no piece; "Hello, world!" without its
\* whitespace pieces is ["Hello", ",", "world", "!"].
C10_DelimiterSplit ==
    (Segmented /\ find_iter(text) = << >>) =>
        /\ \A i \in 1..Len(strs) :
               /\ strs[i].len > 0
               /\ Piece(i) # << >>
               /\ \/ Len(Piece(i)) = 1 /\ split_func(Piece(i)[1])
                  \/ \A n \in 1..Len(Piece(i)) : ~split_func(Piece(i)[n])
        /\ \A i \in 1..(Len(strs) - 1) :
               split_func(Piece(i)[1]) \/ split_func(Piece(i + 1)[1])
        /\ \A n \in 1..Len(text) :
               split_func(text[n]) =>
                   Cardinality({ i \in 1..Len(strs) :
                       strs[i] = Slice(ByteOff(text, n - 1), ByteOff(text, n)) }) = 1
        /\ (\A n \in 1..Len(text) : split_func(text[n])) => Len(strs) = Len(text)
        /\ text = << >> => strs = << >>
        /\ text = HelloText =>
               SelectSeq([i \in 1..Len(strs) |-> Piece(i)],
                         LAMBDA q : trim(q) # << >>)
                   = << SubSeq(HelloText, 1, 5), << "," >>,
                        SubSeq(HelloText, 8, 12), << "!" >> >>

C10_Witness ==
    /\ Segmented
    /\ find_iter(text) = << >>
    /\ Len(strs) >= 3
    /\ \E i \in 1..(Len(strs) - 1) :
           /\ split_func(Piece(i)[1])
           /\ split_func(Piece(i + 1)[1])
           /\ Width(Piece(i)[1]) > 1
    /\ \E i \in 1..Len(strs) : Len(Piece(i)) > 1

====
